---------------------------- MODULE Spec2Model ----------------------------
(***************************************************************************)
(* A model of sgp/FileMan.cc: path joining, the case-insensitive resolver, *)
(* the directory locator, the layered open, the unified file handle and    *)
(* the shallow directory erase.                                            *)
(*                                                                         *)
(* A C string is a sequence of one-character strings; PATH_SEPARATOR is    *)
(* "/".  A directory is the sequence of its entries in readdir order.      *)
(***************************************************************************)
EXTENDS Integers, Sequences, FiniteSets, TLC

VARIABLES
  jFirst, jSecond, jResult,                       \* joinPaths: the arguments and the last result
  root, cwd, archive,                             \* the file system, the current directory, the library
  s_gameResRootPath, s_dataDir, s_tileDir, s_mapsDir,
  lastFind, lastOpen, lastExists,                 \* the last resolver, open and FileExists call
  disk, lib, hReal, hLib, outReal, outLib,        \* one file's bytes, one library entry's bytes, two handles
  efs, eraseResult,                               \* the file system EraseDirectory works on
  resources, handles                              \* what the opens acquired, and the live handles

joinVars   == <<jFirst, jSecond, jResult>>
fsVars     == <<root, cwd, archive, s_gameResRootPath, s_dataDir, s_tileDir, s_mapsDir,
                lastFind, lastOpen, lastExists>>
handleVars == <<disk, lib, hReal, hLib, outReal, outLib>>
eraseVars  == <<efs, eraseResult>>
lifeVars   == <<resources, handles>>
vars       == <<joinVars, fsVars, handleVars, eraseVars, lifeVars>>

---------------------------------------------------------------------------
(* Bounds of the model. *)

\* the longest argument of joinPaths
MaxLen == 2
\* the most entries one directory holds
MaxEntries == 2
\* the most bytes of a file or a library entry
MaxBytes == 2
\* the largest seek distance asked for
MaxSeek == 1
\* the most children of the directory handed to EraseDirectory
MaxChildren == 3
\* the most descriptors and library entries one behaviour acquires
MaxOpens == 2

---------------------------------------------------------------------------
(* C strings. *)

PATH_SEPARATOR == "/"

\* all sequences over S of length 0..n
RECURSIVE SeqsUpTo(_, _)
SeqsUpTo(S, n) ==
  IF n = 0 THEN {<<>>}
  ELSE LET shorter == SeqsUpTo(S, n - 1)
       IN  shorter \cup {Append(s, c) : s \in {t \in shorter : Len(t) = n - 1}, c \in S}

Last(s) == s[Len(s)]

\* tolower(3) on the letters the model uses
tolower(c) ==
  CASE c = "A" -> "a" [] c = "B" -> "b" [] c = "C" -> "c" [] c = "D" -> "d"
    [] c = "E" -> "e" [] c = "H" -> "h" [] c = "I" -> "i" [] c = "L" -> "l"
    [] c = "M" -> "m" [] c = "P" -> "p" [] c = "S" -> "s" [] c = "T" -> "t"
    [] OTHER -> c

\* strcasecmp(a, b) == 0
strcasecmpEq(a, b) ==
  /\ Len(a) = Len(b)
  /\ \A i \in 1..Len(a) : tolower(a[i]) = tolower(b[i])

\* strstr(name, "/"): the index of the first separator, 0 when there is none
strstrSep(name) ==
  IF \E i \in 1..Len(name) : name[i] = PATH_SEPARATOR
  THEN CHOOSE i \in 1..Len(name) :
         /\ name[i] = PATH_SEPARATOR
         /\ \A j \in 1..(i - 1) : name[j] # PATH_SEPARATOR
  ELSE 0

---------------------------------------------------------------------------
(* FileMan::joinPaths *)

\* joinPaths(const std::string &first, const char *second)
joinPaths(first, second) ==
  LET needSep == /\ (Len(first) = 0 \/ Last(first) # PATH_SEPARATOR)
                 /\ (Len(second) = 0 \/ second[1] # PATH_SEPARATOR)
  IN  (IF needSep THEN Append(first, PATH_SEPARATOR) ELSE first) \o second

\* joinPaths(const char *first, const char *second)
joinPathsCStr(first, second) == joinPaths(first, second)

\* joinPaths(first, second, outputBuf, outputBufSize): the set of strings the
\* buffer may hold afterwards.  With an empty first the test reads first[-1],
\* a byte that is not the string's: either outcome of the comparison can happen.
\* The arguments are taken to fit the buffer (128 bytes at the call sites).
joinPathsBuf(first, second) ==
  IF Len(first) = 0
  THEN {second, <<PATH_SEPARATOR>> \o second}
  ELSE IF Last(first) # PATH_SEPARATOR
       THEN {first \o <<PATH_SEPARATOR>> \o second}
       ELSE {first \o second}

JoinChars == {"a", PATH_SEPARATOR}
JoinArgs  == SeqsUpTo(JoinChars, MaxLen)

NoJoin    == [fn |-> "none", out |-> <<>>]

JoinInit ==
  /\ jFirst \in JoinArgs
  /\ jSecond \in JoinArgs
  /\ jResult = NoJoin

JoinIdle ==
  /\ jFirst = <<>>
  /\ jSecond = <<>>
  /\ jResult = NoJoin

JoinString ==
  /\ jResult' = [fn |-> "string", out |-> joinPaths(jFirst, jSecond)]
  /\ UNCHANGED <<jFirst, jSecond>>

JoinCString ==
  /\ jResult' = [fn |-> "cstring", out |-> joinPathsCStr(jFirst, jSecond)]
  /\ UNCHANGED <<jFirst, jSecond>>

JoinBuffer ==
  /\ \E out \in joinPathsBuf(jFirst, jSecond) :
       jResult' = [fn |-> "buffer", out |-> out]
  /\ UNCHANGED <<jFirst, jSecond>>

---------------------------------------------------------------------------
(* The file system as the code sees it. *)

\* d_type of struct dirent (dirent.h)
DT_UNKNOWN == 0
DT_FIFO == 1
DT_CHR == 2
DT_DIR == 4
DT_BLK == 6
DT_REG == 8
DT_LNK == 10
DT_SOCK == 12

DTypes == {DT_UNKNOWN, DT_FIFO, DT_CHR, DT_DIR, DT_BLK, DT_REG, DT_LNK, DT_SOCK}

\* a & b and a | b on unsigned values
RECURSIVE BitAnd(_, _)
BitAnd(a, b) ==
  IF a = 0 \/ b = 0 THEN 0
  ELSE (IF a % 2 = 1 /\ b % 2 = 1 THEN 1 ELSE 0) + 2 * BitAnd(a \div 2, b \div 2)

RECURSIVE BitOr(_, _)
BitOr(a, b) ==
  IF a = 0 THEN b
  ELSE IF b = 0 THEN a
  ELSE (IF a % 2 = 1 \/ b % 2 = 1 THEN 1 ELSE 0) + 2 * BitOr(a \div 2, b \div 2)

\* An entry of a directory: its name, its d_type and, for a directory, its own entries.
Entry(n, t, k) == [name |-> n, type |-> t, kids |-> k]

NoNode == [type |-> -1, kids |-> <<>>]

\* the components of a path: runs of separators count as one
RECURSIVE Segments(_)
Segments(path) ==
  IF Len(path) = 0 THEN <<>>
  ELSE IF path[1] = PATH_SEPARATOR THEN Segments(Tail(path))
  ELSE LET i == strstrSep(path)
       IN  IF i = 0 THEN <<path>>
           ELSE <<SubSeq(path, 1, i - 1)>> \o Segments(SubSeq(path, i + 1, Len(path)))

\* the node a walk along segs from the directory node ends at, NoNode when a
\* component is missing or a component walked through is no directory
RECURSIVE NodeAt(_, _)
NodeAt(node, segs) ==
  IF node = NoNode THEN NoNode
  ELSE IF segs = <<>> THEN node
  ELSE IF node.type # DT_DIR THEN NoNode
  ELSE LET hits == {i \in 1..Len(node.kids) : node.kids[i].name = Head(segs)}
       IN  IF hits = {} THEN NoNode
           ELSE LET e == node.kids[CHOOSE i \in hits : TRUE]
                IN  NodeAt([type |-> e.type, kids |-> e.kids], Tail(segs))

\* the node a path names: an absolute path from the root, another from the
\* current directory; a trailing separator asks for a directory
Lookup(fs, path) ==
  LET start == IF Len(path) > 0 /\ path[1] = PATH_SEPARATOR THEN fs.root ELSE fs.cwd
      node  == IF Len(path) = 0 THEN NoNode
               ELSE NodeAt([type |-> DT_DIR, kids |-> start], Segments(path))
  IN  IF node # NoNode /\ Len(path) > 0 /\ Last(path) = PATH_SEPARATOR /\ node.type # DT_DIR
      THEN NoNode ELSE node

\* open(path, O_RDONLY) >= 0: a regular file or a directory opens; a missing
\* path (ENOENT, ENOTDIR) and a socket (ENXIO) do not
openOK(fs, path) == Lookup(fs, path).type \in {DT_REG, DT_DIR}

\* opendir(directory) != NULL
opendirOK(fs, directory) == Lookup(fs, directory).type = DT_DIR

\* the entries readdir(3) yields, in its order ("." and ".." left out)
readdirAll(fs, directory) == Lookup(fs, directory).kids

---------------------------------------------------------------------------
(* findObjectCaseInsensitive *)

NotFound == [found |-> FALSE, name |-> <<>>]

\* ScanDir leaving the loop at its first match
RECURSIVE ScanDir_StopAtFirst(_, _, _, _)
ScanDir_StopAtFirst(entries, name, objectTypes, acc) ==
  IF entries = <<>> THEN acc
  ELSE LET entry == Head(entries)
           hit   == /\ BitAnd(entry.type, objectTypes) # 0
                    /\ strcasecmpEq(name, entry.name)
       IN  IF hit THEN [found |-> TRUE, name |-> entry.name]
           ELSE ScanDir_StopAtFirst(Tail(entries), name, objectTypes, acc)

\* the while loop over readdir: every entry is visited, and each entry that
\* passes "(d_type & objectTypes) && !strcasecmp(name, d_name)" overwrites
\* nameBuf; acc is (result, nameBuf) so far
RECURSIVE ScanDir(_, _, _, _)
ScanDir(entries, name, objectTypes, acc) ==
  IF entries = <<>> THEN acc
  ELSE LET entry == Head(entries)
           hit   == /\ BitAnd(entry.type, objectTypes) # 0
                    /\ strcasecmpEq(name, entry.name)
       IN  ScanDir(Tail(entries), name, objectTypes,
                   IF hit THEN [found |-> TRUE, name |-> entry.name] ELSE acc)

\* the else branch: name holds no directory part
ScanForObject(fs, directory, name, lookForFiles, lookForSubdirs) ==
  LET objectTypes == BitOr(IF lookForFiles THEN DT_REG ELSE 0,
                           IF lookForSubdirs THEN DT_DIR ELSE 0)
  IN  IF opendirOK(fs, directory)
      THEN ScanDir(readdirAll(fs, directory), name, objectTypes, NotFound)
      ELSE NotFound

\* HeadFlags handing the caller's flags on to the lookup of the head
HeadFlags_CallersFlags(lookForFiles, lookForSubdirs) == [files |-> lookForFiles, dirs |-> lookForSubdirs]

\* the flags the head of a name with a directory part is looked up with
HeadFlags(lookForFiles, lookForSubdirs) == [files |-> FALSE, dirs |-> TRUE]

\* findObjectCaseInsensitive(directory, name, lookForFiles, lookForSubdirs,
\* nameBuf, nameBufSize): found, and the name copied into nameBuf.  Names are
\* taken to fit the 128-byte buffers.
RECURSIVE findObjectCaseInsensitive(_, _, _, _, _)
findObjectCaseInsensitive(fs, directory, name, lookForFiles, lookForSubdirs) ==
  LET splitter   == strstrSep(name)
      dirNameLen == splitter - 1
  IN  IF splitter # 0 /\ dirNameLen > 0 /\ splitter < Len(name)
      THEN LET hf   == HeadFlags(lookForFiles, lookForSubdirs)
               head == findObjectCaseInsensitive(fs, directory, SubSeq(name, 1, dirNameLen),
                                                 hf.files, hf.dirs)
           IN  IF head.found
               THEN LET newDirectory == CHOOSE p \in joinPathsBuf(directory, head.name) : TRUE
                        inSubdir     == findObjectCaseInsensitive(fs, newDirectory,
                                          SubSeq(name, splitter + 1, Len(name)),
                                          lookForFiles, lookForSubdirs)
                    IN  IF inSubdir.found
                        THEN [found |-> TRUE,
                              name  |-> CHOOSE p \in joinPathsBuf(head.name, inSubdir.name) : TRUE]
                        ELSE NotFound
               ELSE NotFound
      ELSE ScanForObject(fs, directory, name, lookForFiles, lookForSubdirs)

---------------------------------------------------------------------------
(* findDataDirs *)

BASEDATADIR  == <<"d", "a", "t", "a">>
TILECACHEDIR == <<"t", "i", "l", "e", "c", "a", "c", "h", "e">>
MAPSDIR      == <<"m", "a", "p", "s">>

\* findDataDirs() on a case-sensitive file system: the three paths it leaves
findDataDirs(fs, gameResRootPath) ==
  LET dataDir0 == joinPaths(gameResRootPath, BASEDATADIR)
      tileDir0 == joinPaths(dataDir0, TILECACHEDIR)
      mapsDir0 == joinPaths(dataDir0, MAPSDIR)
      d        == findObjectCaseInsensitive(fs, gameResRootPath, BASEDATADIR, FALSE, TRUE)
      dataDir1 == IF d.found THEN joinPaths(gameResRootPath, d.name) ELSE dataDir0
      t        == findObjectCaseInsensitive(fs, dataDir1, TILECACHEDIR, FALSE, TRUE)
      m        == findObjectCaseInsensitive(fs, dataDir1, MAPSDIR, FALSE, TRUE)
  IN  [dataDir |-> dataDir1,
       tileDir |-> IF t.found THEN joinPaths(dataDir1, t.name) ELSE tileDir0,
       mapsDir |-> IF m.found THEN joinPaths(dataDir1, m.name) ELSE mapsDir0]

---------------------------------------------------------------------------
(* The layered open. *)

SGPFILE_NONE == 0
SGPFILE_REAL == 1

Call(what, path) == [call |-> what, path |-> path]

NoFD == [ok |-> FALSE, path |-> <<>>]

\* OpenFileInDataDirFD(filename, mode): the descriptor (the path it is open on)
\* and the calls made
OpenFileInDataDirFD(fs, dataDir, filename) ==
  LET path == dataDir \o <<PATH_SEPARATOR>> \o filename
  IN  IF openOK(fs, path)
      THEN [fd |-> [ok |-> TRUE, path |-> path], calls |-> <<Call("open", path)>>]
      ELSE LET r     == findObjectCaseInsensitive(fs, dataDir, filename, TRUE, FALSE)
               path2 == dataDir \o <<PATH_SEPARATOR>> \o r.name
           IN  IF r.found
               THEN [fd    |-> IF openOK(fs, path2) THEN [ok |-> TRUE, path |-> path2] ELSE NoFD,
                     calls |-> <<Call("open", path), Call("findObjectCaseInsensitive", dataDir),
                                 Call("open", path2)>>]
               ELSE [fd    |-> NoFD,
                     calls |-> <<Call("open", path), Call("findObjectCaseInsensitive", dataDir)>>]

\* OpenFileFromLibrary(filename, &libFile) of the library collaborator
OpenFileFromLibrary(arch, filename) == filename \in arch

\* what an open operation hands back: status "handle" with the SGPFile's flags
\* and what it is open on, or status "runtime_error"; openFds are the
\* descriptors left open that no handle owns
OpenResult(status, flags, path, openFds) ==
  [status |-> status, flags |-> flags, path |-> path, openFds |-> openFds]

\* getSGPFileFromFD without its test of fd < 0
getSGPFileFromFD_NoFdTest(fd, fdopenOK) ==
  IF ~fdopenOK THEN OpenResult("runtime_error", SGPFILE_NONE, <<>>, {fd.path})
  ELSE OpenResult("handle", SGPFILE_REAL, fd.path, {})

\* getSGPFileFromFD(fd, filename, fmode); fdopenOK is whether fdopen(3) succeeds
getSGPFileFromFD(fd, fdopenOK) ==
  IF ~fd.ok THEN OpenResult("runtime_error", SGPFILE_NONE, <<>>, {})
  ELSE IF ~fdopenOK THEN OpenResult("runtime_error", SGPFILE_NONE, <<>>, {fd.path})
  ELSE OpenResult("handle", SGPFILE_REAL, fd.path, {})

\* openForReadingSmart asking the libraries before the data directory
openForReadingSmart_LibraryFirst(fs, dataDir, arch, filename, useSmartLookup, fdopenOK) ==
  LET first == <<Call("open", filename)>>
  IN  IF openOK(fs, filename) \/ ~useSmartLookup
      THEN [res   |-> getSGPFileFromFD(IF openOK(fs, filename)
                                       THEN [ok |-> TRUE, path |-> filename] ELSE NoFD, fdopenOK),
            calls |-> first]
      ELSE IF OpenFileFromLibrary(arch, filename)
           THEN [res   |-> OpenResult("handle", SGPFILE_NONE, filename, {}),
                 calls |-> first \o <<Call("OpenFileFromLibrary", filename)>>]
           ELSE LET inData == OpenFileInDataDirFD(fs, dataDir, filename)
                IN  [res   |-> getSGPFileFromFD(inData.fd, fdopenOK),
                     calls |-> first \o <<Call("OpenFileFromLibrary", filename)>> \o inData.calls]

\* openForReadingSmart going on to the data directory and the libraries
\* whatever useSmartLookup says
openForReadingSmart_AlwaysSmart(fs, dataDir, arch, filename, useSmartLookup, fdopenOK) ==
  LET first == <<Call("open", filename)>>
  IN  IF openOK(fs, filename)
      THEN [res   |-> getSGPFileFromFD([ok |-> TRUE, path |-> filename], fdopenOK),
            calls |-> first]
      ELSE LET inData == OpenFileInDataDirFD(fs, dataDir, filename)
           IN  IF inData.fd.ok
               THEN [res   |-> getSGPFileFromFD(inData.fd, fdopenOK),
                     calls |-> first \o inData.calls]
               ELSE LET calls == first \o inData.calls \o <<Call("OpenFileFromLibrary", filename)>>
                    IN  IF OpenFileFromLibrary(arch, filename)
                        THEN [res |-> OpenResult("handle", SGPFILE_NONE, filename, {}), calls |-> calls]
                        ELSE [res |-> getSGPFileFromFD(NoFD, fdopenOK), calls |-> calls]

\* FileMan::openForReadingSmart(filename, useSmartLookup)
openForReadingSmart(fs, dataDir, arch, filename, useSmartLookup, fdopenOK) ==
  LET first == <<Call("open", filename)>>
  IN  IF openOK(fs, filename) \/ ~useSmartLookup
      THEN [res   |-> getSGPFileFromFD(IF openOK(fs, filename)
                                       THEN [ok |-> TRUE, path |-> filename] ELSE NoFD, fdopenOK),
            calls |-> first]
      ELSE LET inData == OpenFileInDataDirFD(fs, dataDir, filename)
           IN  IF inData.fd.ok
               THEN [res   |-> getSGPFileFromFD(inData.fd, fdopenOK),
                     calls |-> first \o inData.calls]
               ELSE LET calls == first \o inData.calls \o <<Call("OpenFileFromLibrary", filename)>>
                    IN  IF OpenFileFromLibrary(arch, filename)
                        THEN [res |-> OpenResult("handle", SGPFILE_NONE, filename, {}), calls |-> calls]
                        ELSE [res |-> getSGPFileFromFD(NoFD, fdopenOK), calls |-> calls]

\* CheckIfFileExistInLibrary(filename) of the library collaborator
CheckIfFileExistInLibrary(arch, filename) == filename \in arch

\* FileExists(filename): fopen(filename, "rb"), then fopen of
\* "<data dir>/<filename>", then the libraries
FileExists(fs, dataDir, arch, filename) ==
  IF openOK(fs, filename) THEN TRUE
  ELSE IF openOK(fs, dataDir \o <<PATH_SEPARATOR>> \o filename) THEN TRUE
  ELSE CheckIfFileExistInLibrary(arch, filename)

---------------------------------------------------------------------------
(* The unified file handle. *)

FILE_ACCESS_READ      == 1
FILE_ACCESS_WRITE     == 2
FILE_ACCESS_READWRITE == 3
FILE_ACCESS_APPEND    == 4

\* GetFileOpenModes(flags, &posixMode): the fopen mode
GetFileOpenModes(flags) ==
  CASE flags = FILE_ACCESS_READ      -> "rb"
    [] flags = FILE_ACCESS_WRITE     -> "wb"
    [] flags = FILE_ACCESS_READWRITE -> "r+b"
    [] flags = FILE_ACCESS_APPEND    -> "ab"

\* An SGPFile: its flags; for a real file the stream's mode and position, for
\* a library file uiFilePosInFile.
Handle(flags, fmode, pos) == [open |-> TRUE, flags |-> flags, fmode |-> fmode, pos |-> pos]

NoHandle == [open |-> FALSE, flags |-> SGPFILE_NONE, fmode |-> "", pos |-> 0]

\* What a call did: the operation and its argument, the exception thrown
\* ("ok" when none), the value handed back and, for a read or a write, the
\* position and the bytes left after it when the call began.
Out(op, arg, status, value, posBefore, leftBefore) ==
  [op |-> op, arg |-> arg, status |-> status, value |-> value,
   posBefore |-> posBefore, leftBefore |-> leftBefore]

NoOut == Out("none", 0, "ok", <<>>, 0, 0)

\* the bytes left after position pos
Left(content, pos) == IF pos >= Len(content) THEN 0 ELSE Len(content) - pos

\* fread(pDest, n, 1, file) == 1, and the stream afterwards: a stream not open
\* for reading reads nothing; a read of size 0 returns 0; a short read takes
\* the bytes there are and returns 0
fread(f, n, content) ==
  LET left == Left(content, f.pos)
  IN  IF f.fmode \in {"wb", "ab"} THEN [ret |-> 0, f |-> f, data |-> <<>>]
      ELSE IF n = 0 THEN [ret |-> 0, f |-> f, data |-> <<>>]
      ELSE IF left >= n
           THEN [ret |-> 1, f |-> [f EXCEPT !.pos = f.pos + n],
                 data |-> SubSeq(content, f.pos + 1, f.pos + n)]
           ELSE [ret |-> 0, f |-> [f EXCEPT !.pos = f.pos + left],
                 data |-> SubSeq(content, f.pos + 1, f.pos + left)]

\* LoadDataFromLibrary(&f->u.lib, pDest, n) of the library collaborator: all
\* n bytes or failure, the position moved only on success
LoadDataFromLibrary(f, n, content) ==
  IF Left(content, f.pos) >= n
  THEN [ok |-> TRUE, f |-> [f EXCEPT !.pos = f.pos + n],
        data |-> SubSeq(content, f.pos + 1, f.pos + n)]
  ELSE [ok |-> FALSE, f |-> f, data |-> <<>>]

\* FileRead(f, pDest, uiBytesToRead)
FileRead(f, n, diskNow, libNow) ==
  IF f.flags = SGPFILE_REAL
  THEN LET r == fread(f, n, diskNow)
       IN  [f   |-> r.f,
            out |-> Out("read", n, IF r.ret = 1 THEN "ok" ELSE "Reading from file failed",
                        IF r.ret = 1 THEN r.data ELSE <<>>, f.pos, Left(diskNow, f.pos))]
  ELSE LET r == LoadDataFromLibrary(f, n, libNow)
       IN  [f   |-> r.f,
            out |-> Out("read", n, IF r.ok THEN "ok" ELSE "Reading from file failed",
                        IF r.ok THEN r.data ELSE <<>>, f.pos, Left(libNow, f.pos))]

\* content with data written at position at, the gap before it filled with zeros
RECURSIVE WriteAt(_, _, _)
WriteAt(content, at, data) ==
  IF Len(content) < at THEN WriteAt(Append(content, 0), at, data)
  ELSE SubSeq(content, 1, at) \o data
         \o (IF Len(content) > at + Len(data)
             THEN SubSeq(content, at + Len(data) + 1, Len(content)) ELSE <<>>)

\* fwrite(pDest, n, 1, file) == 1, the stream and the file afterwards: a stream
\* not open for writing writes nothing; a write of size 0 returns 0; a stream
\* opened for appending writes at the end
fwrite(f, data, content) ==
  IF f.fmode = "rb" \/ Len(data) = 0 THEN [ret |-> 0, f |-> f, content |-> content]
  ELSE LET at == IF f.fmode = "ab" THEN Len(content) ELSE f.pos
       IN  [ret |-> 1, f |-> [f EXCEPT !.pos = at + Len(data)],
            content |-> WriteAt(content, at, data)]

\* FileWrite without its test of SGPFILE_REAL
FileWrite_NoRealTest(f, data, diskNow) ==
  LET r == fwrite([f EXCEPT !.fmode = "r+b"], data, diskNow)
  IN  [f    |-> [r.f EXCEPT !.fmode = f.fmode], disk |-> r.content,
       out  |-> Out("write", Len(data), IF r.ret = 1 THEN "ok" ELSE "Writing to file failed",
                    <<>>, f.pos, 0)]

\* FileWrite(f, pDest, uiBytesToWrite)
FileWrite(f, data, diskNow) ==
  IF f.flags # SGPFILE_REAL
  THEN [f |-> f, disk |-> diskNow,
        out |-> Out("write", Len(data), "Tried to write to library file", <<>>, f.pos, 0)]
  ELSE LET r == fwrite(f, data, diskNow)
       IN  [f    |-> r.f, disk |-> r.content,
            out  |-> Out("write", Len(data), IF r.ret = 1 THEN "ok" ELSE "Writing to file failed",
                         <<>>, f.pos, 0)]

FILE_SEEK_FROM_START   == "FILE_SEEK_FROM_START"
FILE_SEEK_FROM_END     == "FILE_SEEK_FROM_END"
FILE_SEEK_FROM_CURRENT == "FILE_SEEK_FROM_CURRENT"

FileSeekModes == {FILE_SEEK_FROM_START, FILE_SEEK_FROM_END, FILE_SEEK_FROM_CURRENT}

\* fseek(file, distance, whence) == 0 and the stream afterwards: a position
\* before the start is refused, one past the end is not
fseek(f, distance, how, content) ==
  LET base == CASE how = FILE_SEEK_FROM_START -> 0
                [] how = FILE_SEEK_FROM_END   -> Len(content)
                [] OTHER                      -> f.pos
  IN  IF base + distance < 0 THEN [ok |-> FALSE, f |-> f]
      ELSE [ok |-> TRUE, f |-> [f EXCEPT !.pos = base + distance]]

\* LibraryFileSeek(&f->u.lib, distance, how) of the library collaborator: the
\* same three origins, failure on a position before the start
LibraryFileSeek(f, distance, how, content) ==
  LET base == CASE how = FILE_SEEK_FROM_START -> 0
                [] how = FILE_SEEK_FROM_END   -> Len(content)
                [] OTHER                      -> f.pos
  IN  IF base + distance < 0 THEN [ok |-> FALSE, f |-> f]
      ELSE [ok |-> TRUE, f |-> [f EXCEPT !.pos = base + distance]]

\* FileSeek(f, distance, how)
FileSeek(f, distance, how, diskNow, libNow) ==
  LET r == IF f.flags = SGPFILE_REAL THEN fseek(f, distance, how, diskNow)
           ELSE LibraryFileSeek(f, distance, how, libNow)
  IN  [f   |-> r.f,
       out |-> Out("seek", distance, IF r.ok THEN "ok" ELSE "Seek in file failed", <<>>, 0, 0)]

\* FileGetPos(f): ftell of the stream, or uiFilePosInFile
FileGetPos(f) == [f |-> f, out |-> Out("tell", 0, "ok", <<f.pos>>, 0, 0)]

\* FileGetSize(f): st_size of the file, or uiFileLength of the library entry
FileGetSize(f, diskNow, libNow) ==
  [f   |-> f,
   out |-> Out("size", 0, "ok",
               <<IF f.flags = SGPFILE_REAL THEN Len(diskNow) ELSE Len(libNow)>>, 0, 0)]

Bytes == {0, 1}

\* the largest byte count asked for, and the furthest position sought:
\* one more than any file holds
MaxCount == MaxBytes + 1

\* how the real file is opened: openForReadingSmart, openForWriting,
\* openForReadWrite or openForAppend
OpenFlags == {FILE_ACCESS_READ, FILE_ACCESS_WRITE, FILE_ACCESS_READWRITE, FILE_ACCESS_APPEND}

\* a file and a library entry of the same bytes, nothing opened yet
HandleInit ==
  /\ disk \in SeqsUpTo(Bytes, MaxBytes)
  /\ lib = disk
  /\ hReal = NoHandle
  /\ hLib = NoHandle
  /\ outReal = NoOut
  /\ outLib = NoOut

\* The real file is opened by one of the open operations (getSGPFileFromFD on
\* the descriptor; openForWriting truncates), the library entry by
\* openForReadingSmart.
OpenHandles ==
  /\ ~hReal.open /\ ~hLib.open
  /\ \E flags \in OpenFlags :
       /\ hReal' = Handle(SGPFILE_REAL, GetFileOpenModes(flags), 0)
       /\ disk' = IF flags = FILE_ACCESS_WRITE THEN <<>> ELSE disk
  /\ hLib' = Handle(SGPFILE_NONE, "", 0)
  /\ outReal' = NoOut
  /\ outLib' = NoOut
  /\ UNCHANGED lib

\* the same FileRead on both handles
Read ==
  /\ hReal.open /\ hLib.open
  /\ \E n \in 0..MaxCount :
       LET r == FileRead(hReal, n, disk, lib)
           l == FileRead(hLib, n, disk, lib)
       IN  /\ hReal' = r.f /\ outReal' = r.out
           /\ hLib' = l.f /\ outLib' = l.out
  /\ UNCHANGED <<disk, lib>>

\* the same FileWrite on both handles
Write ==
  /\ hReal.open /\ hLib.open
  /\ \E data \in SeqsUpTo(Bytes, 1) :
       LET r == FileWrite(hReal, data, disk)
           l == FileWrite(hLib, data, disk)
       IN  /\ Len(r.disk) <= MaxBytes
           /\ hReal' = r.f /\ outReal' = r.out /\ disk' = r.disk
           /\ hLib' = l.f /\ outLib' = l.out
  /\ UNCHANGED lib

\* the same FileSeek on both handles
Seek ==
  /\ hReal.open /\ hLib.open
  /\ \E distance \in (0 - MaxSeek)..MaxSeek, how \in FileSeekModes :
       LET r == FileSeek(hReal, distance, how, disk, lib)
           l == FileSeek(hLib, distance, how, disk, lib)
       IN  /\ r.f.pos <= MaxCount /\ l.f.pos <= MaxCount
           /\ hReal' = r.f /\ outReal' = r.out
           /\ hLib' = l.f /\ outLib' = l.out
  /\ UNCHANGED <<disk, lib>>

\* FileGetPos on both handles
GetPos ==
  /\ hReal.open /\ hLib.open
  /\ outReal' = FileGetPos(hReal).out
  /\ outLib' = FileGetPos(hLib).out
  /\ UNCHANGED <<disk, lib, hReal, hLib>>

\* FileGetSize on both handles
GetSize ==
  /\ hReal.open /\ hLib.open
  /\ outReal' = FileGetSize(hReal, disk, lib).out
  /\ outLib' = FileGetSize(hLib, disk, lib).out
  /\ UNCHANGED <<disk, lib, hReal, hLib>>

---------------------------------------------------------------------------
(* FileDelete and EraseDirectory. *)

\* The file system EraseDirectory works on: nodes maps each existing path to
\* what is there (a file, which may be one unlink refuses, or a directory);
\* order is what glob(path "/*", GLOB_NOSORT) yields, which may name a file
\* another process has removed since.
FileNode(locked) == [kind |-> "file", locked |-> locked]
DirNode == [kind |-> "dir", locked |-> FALSE]

\* errno of unlink(path), "ok" when it succeeds
unlinkErrno(nodes, path) ==
  IF path \notin DOMAIN nodes THEN "ENOENT"
  ELSE IF nodes[path].kind = "dir" THEN "EISDIR"
  ELSE IF nodes[path].locked THEN "EACCES"
  ELSE "ok"

Without(nodes, path) == [q \in DOMAIN nodes \ {path} |-> nodes[q]]

\* FileDelete swallowing every failure of unlink
FileDelete_NoThrow(nodes, path) ==
  [nodes  |-> IF unlinkErrno(nodes, path) = "ok" THEN Without(nodes, path) ELSE nodes,
   thrown |-> FALSE]

\* FileDelete(path): the file system afterwards and whether it threw
FileDelete(nodes, path) ==
  LET e == unlinkErrno(nodes, path)
  IN  IF e = "ok" THEN [nodes |-> Without(nodes, path), thrown |-> FALSE]
      ELSE IF e = "ENOENT" THEN [nodes |-> nodes, thrown |-> FALSE]
      ELSE [nodes |-> nodes, thrown |-> TRUE]

\* FileGetAttributes(filename): FILE_ATTR_ERROR when stat fails, else the flags
FileGetAttributes(nodes, filename) ==
  IF filename \notin DOMAIN nodes THEN [error |-> TRUE, directory |-> FALSE]
  ELSE [error |-> FALSE, directory |-> nodes[filename].kind = "dir"]

\* the while loop of EraseDirectory over the names FindFiles::Next yields
RECURSIVE EraseLoop(_, _, _)
EraseLoop(nodes, path, names) ==
  IF names = <<>> THEN [nodes |-> nodes, status |-> "ok"]
  ELSE LET filename == path \o <<PATH_SEPARATOR>> \o Head(names)
           d        == FileDelete(nodes, filename)
           attr     == FileGetAttributes(d.nodes, filename)
       IN  IF ~d.thrown THEN EraseLoop(d.nodes, path, Tail(names))
           ELSE IF ~attr.error /\ attr.directory THEN EraseLoop(d.nodes, path, Tail(names))
           ELSE [nodes |-> d.nodes, status |-> "Deleting file failed"]

\* EraseDirectory(path)
EraseDirectory(fs, path) == EraseLoop(fs.nodes, path, fs.order)

ErasePath  == <<"d">>
ChildNames == {<<"x">>, <<"y">>, <<"z">>}

ChildPath(name) == ErasePath \o <<PATH_SEPARATOR>> \o name

\* what stays whatever the directory holds: the directory, a hidden file in
\* it (which the pattern does not match), and two files outside it
FixedNodes == {ErasePath, ErasePath \o <<"/", ".", "h">>, <<"d", "x">>, <<"e", "/", "x">>}

\* the file inside the subdirectory of this name
Inside(name) == ChildPath(name) \o <<"/", "f">>

\* the orders glob can yield the names in
Orders(names) ==
  {o \in SeqsUpTo(names, Cardinality(names)) :
     Len(o) = Cardinality(names) /\ \A i, j \in 1..Len(o) : i # j => o[i] # o[j]}

ChildKinds == {"file", "locked", "gone", "dir"}

\* the file system in which the children named have the kinds given
EraseLayout(kinds, order) ==
  LET present == {ChildPath(n) : n \in {m \in DOMAIN kinds : kinds[m] # "gone"}}
      inside  == {Inside(n) : n \in {m \in DOMAIN kinds : kinds[m] = "dir"}}
      kindAt(p) ==
        IF p = ErasePath THEN DirNode
        ELSE IF \E n \in DOMAIN kinds : p = ChildPath(n)
             THEN LET n == CHOOSE m \in DOMAIN kinds : p = ChildPath(m)
                  IN  IF kinds[n] = "dir" THEN DirNode ELSE FileNode(kinds[n] = "locked")
             ELSE FileNode(FALSE)
  IN  [nodes |-> [p \in FixedNodes \cup present \cup inside |-> kindAt(p)],
       order |-> order]

NoErase == [called |-> FALSE, status |-> "ok", before |-> <<>>]

EraseInit ==
  /\ \E names \in SUBSET ChildNames :
       /\ Cardinality(names) <= MaxChildren
       /\ \E kinds \in [names -> ChildKinds], order \in Orders(names) :
            efs = EraseLayout(kinds, order)
  /\ eraseResult = NoErase

Erase ==
  /\ ~eraseResult.called
  /\ LET r == EraseDirectory(efs, ErasePath)
     IN  /\ efs' = [efs EXCEPT !.nodes = r.nodes]
         /\ eraseResult' = [called |-> TRUE, status |-> r.status, before |-> efs.nodes]

---------------------------------------------------------------------------
(* File system layouts. *)

\* the entries a directory can hold: any name with any type, a directory
\* with any of the listings kidListings
DirEntries(names, types, kidListings) ==
  {Entry(n, t, <<>>) : n \in names, t \in types \ {DT_DIR}}
    \cup (IF DT_DIR \in types
          THEN {Entry(n, DT_DIR, k) : n \in names, k \in kidListings}
          ELSE {})

\* the directories of at most n entries, in every readdir order; no two
\* entries of a directory have the same name
RECURSIVE Listings(_, _)
Listings(entries, n) ==
  IF n = 0 THEN {<<>>}
  ELSE LET shorter == Listings(entries, n - 1)
           longest == {l \in shorter : Len(l) = n - 1}
       IN  shorter \cup
           {Append(p[1], p[2]) :
              p \in {q \in longest \X entries :
                       \A i \in 1..Len(q[1]) : q[1][i].name # q[2].name}}

ResRoot == <<"/", "r">>

\* the root directory holding the game resource root with the given entries
UnderResRoot(listing) == <<Entry(<<"r">>, DT_DIR, listing)>>

\* the root directory whose data directory holds the given entries
UnderDataDir(listing) == UnderResRoot(<<Entry(BASEDATADIR, DT_DIR, listing)>>)

TopNames == {<<"a">>, <<"A">>}
KidNames == {<<"b">>, <<"B">>}

\* data directories two levels deep: files, directories and sockets
DeepData ==
  Listings(DirEntries(TopNames, {DT_REG, DT_DIR, DT_SOCK},
                      Listings(DirEntries(KidNames, {DT_REG, DT_DIR}, {<<>>}), MaxEntries)),
           MaxEntries)

\* data directories one level deep, with entries of every type
FlatData == Listings(DirEntries(TopNames, DTypes, {<<>>}), MaxEntries)

\* game resource roots: the data directory under either casing, as a
\* directory, a file or a socket, holding tilecache and maps under either casing
DirsLayouts ==
  Listings(DirEntries({BASEDATADIR, <<"D", "a", "t", "a">>}, {DT_REG, DT_DIR, DT_SOCK},
                      Listings(DirEntries({TILECACHEDIR, <<"T", "i", "l", "e", "C", "a", "c", "h", "e">>,
                                           MAPSDIR, <<"M", "a", "p", "s">>},
                                          {DT_REG, DT_DIR}, {<<>>}), MaxEntries)),
           MaxEntries)

\* current directories: nothing, or a, as a file or as a directory with or without b
CwdLayouts ==
  Listings(DirEntries({<<"a">>}, {DT_REG, DT_DIR},
                      Listings(DirEntries({<<"b">>}, {DT_REG}, {<<>>}), 1)), 1)

FS == [root |-> root, cwd |-> cwd]

NoFind == [directory |-> <<>>, name |-> <<>>, files |-> FALSE, dirs |-> FALSE,
           called |-> FALSE, result |-> NotFound]

NoOpen == [filename |-> <<>>, useSmartLookup |-> FALSE, fdopenOK |-> FALSE,
           called |-> FALSE, res |-> OpenResult("none", SGPFILE_NONE, <<>>, {}), calls |-> <<>>]

NoExists == [filename |-> <<>>, called |-> FALSE, exists |-> FALSE]

FsIdle ==
  /\ root = <<>>
  /\ cwd = <<>>
  /\ archive = {}
  /\ s_gameResRootPath = <<>>
  /\ s_dataDir = <<>>
  /\ s_tileDir = <<>>
  /\ s_mapsDir = <<>>
  /\ lastFind = NoFind
  /\ lastOpen = NoOpen
  /\ lastExists = NoExists

HandleIdle ==
  /\ disk = <<>>
  /\ lib = <<>>
  /\ hReal = NoHandle
  /\ hLib = NoHandle
  /\ outReal = NoOut
  /\ outLib = NoOut

EraseIdle ==
  /\ efs = [nodes |-> <<>>, order |-> <<>>]
  /\ eraseResult = NoErase

LifeIdle ==
  /\ resources = <<>>
  /\ handles = {}

---------------------------------------------------------------------------
(* joinPaths on every pair of short arguments. *)

InitJoin == JoinInit /\ FsIdle /\ HandleIdle /\ EraseIdle /\ LifeIdle

NextJoin ==
  \/ JoinString /\ UNCHANGED <<fsVars, handleVars, eraseVars, lifeVars>>
  \/ JoinCString /\ UNCHANGED <<fsVars, handleVars, eraseVars, lifeVars>>
  \/ JoinBuffer /\ UNCHANGED <<fsVars, handleVars, eraseVars, lifeVars>>

SpecJoin == InitJoin /\ [][NextJoin]_vars

---------------------------------------------------------------------------
(* The resolver on every layout of the data directory. *)

FindDirectories == {ResRoot \o <<"/">> \o BASEDATADIR,
                    ResRoot \o <<"/">> \o BASEDATADIR \o <<"/">>,
                    ResRoot \o <<"/", "x">>}

FindNames == {<<"a">>, <<"A">>, <<"a", "/", "b">>, <<"A", "/", "b">>, <<"a", "/", "B">>,
              <<"A", "/", "B">>, <<"a", "/">>, <<"/", "a">>, <<"a", "/", "/", "b">>}

InitResolve ==
  /\ root \in {UnderDataDir(l) : l \in DeepData \cup FlatData}
  /\ cwd = <<>>
  /\ archive = {}
  /\ s_gameResRootPath = ResRoot
  /\ s_dataDir = <<>>
  /\ s_tileDir = <<>>
  /\ s_mapsDir = <<>>
  /\ lastFind = NoFind
  /\ lastOpen = NoOpen
  /\ lastExists = NoExists
  /\ JoinIdle /\ HandleIdle /\ EraseIdle /\ LifeIdle

FindObject ==
  /\ ~lastFind.called
  /\ \E directory \in FindDirectories, name \in FindNames, files \in BOOLEAN, dirs \in BOOLEAN :
       lastFind' = [directory |-> directory, name |-> name, files |-> files, dirs |-> dirs,
                    called |-> TRUE,
                    result |-> findObjectCaseInsensitive(FS, directory, name, files, dirs)]
  /\ UNCHANGED <<root, cwd, archive, s_gameResRootPath, s_dataDir, s_tileDir, s_mapsDir, lastOpen, lastExists>>
  /\ UNCHANGED <<joinVars, handleVars, eraseVars, lifeVars>>

NextResolve == FindObject

SpecResolve == InitResolve /\ [][NextResolve]_vars

---------------------------------------------------------------------------
(* The directory locator on every layout of the game resource root. *)

InitDirs ==
  /\ root \in {UnderResRoot(l) : l \in DirsLayouts}
  /\ cwd = <<>>
  /\ archive = {}
  /\ s_gameResRootPath = ResRoot
  /\ s_dataDir = <<>>
  /\ s_tileDir = <<>>
  /\ s_mapsDir = <<>>
  /\ lastFind = NoFind
  /\ lastOpen = NoOpen
  /\ lastExists = NoExists
  /\ JoinIdle /\ HandleIdle /\ EraseIdle /\ LifeIdle

\* InitializeFileManager's call of findDataDirs(), once
FindDataDirs ==
  /\ s_dataDir = <<>>
  /\ LET r == findDataDirs(FS, s_gameResRootPath)
     IN  /\ s_dataDir' = r.dataDir
         /\ s_tileDir' = r.tileDir
         /\ s_mapsDir' = r.mapsDir
  /\ UNCHANGED <<root, cwd, archive, s_gameResRootPath, lastFind, lastOpen, lastExists>>
  /\ UNCHANGED <<joinVars, handleVars, eraseVars, lifeVars>>

NextDirs == FindDataDirs

SpecDirs == InitDirs /\ [][NextDirs]_vars

---------------------------------------------------------------------------
(* The layered open on every layout of the three layers. *)

OpenNames == {<<"a">>, <<"A">>, <<"a", "/", "b">>, <<"A", "/", "b">>, <<"a", "/", "B">>,
              <<"A", "/", "B">>}

ArchiveNames == {<<"a">>, <<"a", "/", "b">>}

\* the state InitializeFileManager leaves: the directories located
InitOpen ==
  /\ root \in {UnderDataDir(l) : l \in DeepData}
  /\ cwd \in CwdLayouts
  /\ archive \in SUBSET ArchiveNames
  /\ s_gameResRootPath = ResRoot
  /\ LET r == findDataDirs(FS, ResRoot)
     IN  /\ s_dataDir = r.dataDir
         /\ s_tileDir = r.tileDir
         /\ s_mapsDir = r.mapsDir
  /\ lastFind = NoFind
  /\ lastOpen = NoOpen
  /\ lastExists = NoExists
  /\ JoinIdle /\ HandleIdle /\ EraseIdle /\ LifeIdle

OpenForReadingSmart ==
  /\ ~lastOpen.called
  /\ \E filename \in OpenNames, useSmartLookup \in BOOLEAN, fdopenOK \in BOOLEAN :
       LET r == openForReadingSmart(FS, s_dataDir, archive, filename, useSmartLookup, fdopenOK)
       IN  lastOpen' = [filename |-> filename, useSmartLookup |-> useSmartLookup,
                        fdopenOK |-> fdopenOK, called |-> TRUE, res |-> r.res, calls |-> r.calls]
  /\ UNCHANGED <<root, cwd, archive, s_gameResRootPath, s_dataDir, s_tileDir, s_mapsDir, lastFind, lastExists>>
  /\ UNCHANGED <<joinVars, handleVars, eraseVars, lifeVars>>

NextOpen == OpenForReadingSmart

SpecOpen == InitOpen /\ [][NextOpen]_vars

---------------------------------------------------------------------------
(* The handle operations on a real file and a library entry of the same bytes. *)

InitHandle == HandleInit /\ JoinIdle /\ FsIdle /\ EraseIdle /\ LifeIdle

NextHandle ==
  \/ OpenHandles /\ UNCHANGED <<joinVars, fsVars, eraseVars, lifeVars>>
  \/ Read /\ UNCHANGED <<joinVars, fsVars, eraseVars, lifeVars>>
  \/ Write /\ UNCHANGED <<joinVars, fsVars, eraseVars, lifeVars>>
  \/ Seek /\ UNCHANGED <<joinVars, fsVars, eraseVars, lifeVars>>
  \/ GetPos /\ UNCHANGED <<joinVars, fsVars, eraseVars, lifeVars>>
  \/ GetSize /\ UNCHANGED <<joinVars, fsVars, eraseVars, lifeVars>>

SpecHandle == InitHandle /\ [][NextHandle]_vars

---------------------------------------------------------------------------
(* EraseDirectory on every layout of the directory. *)

InitErase == EraseInit /\ JoinIdle /\ FsIdle /\ HandleIdle /\ LifeIdle

NextErase == Erase /\ UNCHANGED <<joinVars, fsVars, handleVars, lifeVars>>

SpecErase == InitErase /\ [][NextErase]_vars

---------------------------------------------------------------------------
(* The opens and the close: what they acquire, hand out and release. *)

\* listing with a new regular file at the end of the directory segs names
RECURSIVE CreateAt(_, _)
CreateAt(listing, segs) ==
  IF Len(segs) = 1 THEN Append(listing, Entry(segs[1], DT_REG, <<>>))
  ELSE [i \in 1..Len(listing) |->
          IF listing[i].name = Head(segs)
          THEN [listing[i] EXCEPT !.kids = CreateAt(listing[i].kids, Tail(segs))]
          ELSE listing[i]]

\* open3(filename, mode | O_CREAT, 0600): a regular file opens, a missing file
\* in a directory there is is created; a directory (EISDIR), a socket (ENXIO)
\* and a path through a missing directory (ENOENT, ENOTDIR) do not open
open3(fs, filename) ==
  LET node     == Lookup(fs, filename)
      segs     == Segments(filename)
      absolute == filename[1] = PATH_SEPARATOR
      start    == IF absolute THEN fs.root ELSE fs.cwd
      parent   == NodeAt([type |-> DT_DIR, kids |-> start], SubSeq(segs, 1, Len(segs) - 1))
      made     == CreateAt(start, segs)
  IN  IF node.type = DT_REG
      THEN [fd |-> [ok |-> TRUE, path |-> filename], fs |-> fs]
      ELSE IF node = NoNode /\ parent.type = DT_DIR /\ Last(filename) # PATH_SEPARATOR
      THEN [fd |-> [ok |-> TRUE, path |-> filename],
            fs |-> IF absolute THEN [fs EXCEPT !.root = made] ELSE [fs EXCEPT !.cwd = made]]
      ELSE [fd |-> NoFD, fs |-> fs]

\* FileMan::openForWriting(filename)
openForWriting(fs, filename, fdopenOK) ==
  LET o == open3(fs, filename)
  IN  [res   |-> getSGPFileFromFD(o.fd, fdopenOK),
       fmode |-> GetFileOpenModes(FILE_ACCESS_WRITE), fs |-> o.fs]

\* FileMan::openForAppend(filename)
openForAppend(fs, filename, fdopenOK) ==
  LET o == open3(fs, filename)
  IN  [res   |-> getSGPFileFromFD(o.fd, fdopenOK),
       fmode |-> GetFileOpenModes(FILE_ACCESS_APPEND), fs |-> o.fs]

\* FileMan::openForReadWrite(filename)
openForReadWrite(fs, filename, fdopenOK) ==
  LET o == open3(fs, filename)
  IN  [res   |-> getSGPFileFromFD(o.fd, fdopenOK),
       fmode |-> GetFileOpenModes(FILE_ACCESS_READWRITE), fs |-> o.fs]

\* FileMan::openForReadingInDataDir(filename): the FILE* handed back (NULL
\* when stream is FALSE), whether a descriptor was opened and whether
\* close(d) was called on it
openForReadingInDataDir(fs, dataDir, filename, fdopenOK) ==
  LET d == OpenFileInDataDirFD(fs, dataDir, filename).fd
  IN  IF d.ok
      THEN [stream |-> fdopenOK, path |-> d.path, opened |-> TRUE, closed |-> ~fdopenOK]
      ELSE [stream |-> FALSE, path |-> <<>>, opened |-> FALSE, closed |-> FALSE]

\* A descriptor ("fd") or a library entry ("lib") an open acquired: whether
\* it is still open and how often it was released.
Resource(kind, path, open, releases) ==
  [kind |-> kind, path |-> path, open |-> open, releases |-> releases]

\* A handle a caller holds: the resource it owns, whether it is an SGPFile
\* or a bare FILE*, the SGPFile's flags and the stream's mode.
Owner(id, kind, flags, fmode) == [id |-> id, kind |-> kind, flags |-> flags, fmode |-> fmode]

\* fclose(f->u.file): the descriptor of the stream is closed
fclose(rs, id) == [rs EXCEPT ![id] = Resource(@.kind, @.path, FALSE, @.releases + 1)]

\* CloseLibraryFile(&f->u.lib) of the library collaborator: the entry is released
CloseLibraryFile(rs, id) == [rs EXCEPT ![id] = Resource(@.kind, @.path, FALSE, @.releases + 1)]

\* FileClose(f): the resources and the live handles afterwards
FileClose(f, rs, hs) ==
  [resources |-> IF BitAnd(f.flags, SGPFILE_REAL) # 0 THEN fclose(rs, f.id)
                 ELSE CloseLibraryFile(rs, f.id),
   handles   |-> hs \ {f}]

\* what an open that ended as res leaves: the handle owns what it is open on;
\* a descriptor in res.openFds is open and nobody's
AfterOpen(res, fmode, rs, hs) ==
  LET id == Len(rs) + 1
  IN  IF res.status = "handle"
      THEN [resources |-> Append(rs, Resource(IF res.flags = SGPFILE_REAL THEN "fd" ELSE "lib",
                                              res.path, TRUE, 0)),
            handles   |-> hs \cup {Owner(id, "SGPFile", res.flags, fmode)}]
      ELSE IF res.openFds # {}
      THEN [resources |-> Append(rs, Resource("fd", CHOOSE q \in res.openFds : TRUE, TRUE, 0)),
            handles   |-> hs]
      ELSE [resources |-> rs, handles |-> hs]

LifeNames == {<<"a">>, <<"A">>, <<"a", "/", "b">>}

\* data directories of files only
FileData == Listings(DirEntries(TopNames, {DT_REG}, {<<>>}), MaxEntries)

InitLife ==
  /\ root \in {UnderDataDir(l) : l \in FileData}
  /\ cwd \in CwdLayouts
  /\ archive \in SUBSET ArchiveNames
  /\ s_gameResRootPath = ResRoot
  /\ LET r == findDataDirs(FS, ResRoot)
     IN  /\ s_dataDir = r.dataDir
         /\ s_tileDir = r.tileDir
         /\ s_mapsDir = r.mapsDir
  /\ lastFind = NoFind
  /\ lastOpen = NoOpen
  /\ lastExists = NoExists
  /\ resources = <<>>
  /\ handles = {}
  /\ JoinIdle /\ HandleIdle /\ EraseIdle

LifeFrame ==
  /\ UNCHANGED <<archive, s_gameResRootPath, s_dataDir, s_tileDir, s_mapsDir, lastFind, lastOpen, lastExists>>
  /\ UNCHANGED <<joinVars, handleVars, eraseVars>>

OpenSmart ==
  /\ Len(resources) < MaxOpens
  /\ \E filename \in LifeNames, useSmartLookup \in BOOLEAN, fdopenOK \in BOOLEAN :
       LET r == openForReadingSmart(FS, s_dataDir, archive, filename, useSmartLookup, fdopenOK)
           a == AfterOpen(r.res, GetFileOpenModes(FILE_ACCESS_READ), resources, handles)
       IN  resources' = a.resources /\ handles' = a.handles
  /\ UNCHANGED <<root, cwd>>
  /\ LifeFrame

OpenWriting ==
  /\ Len(resources) < MaxOpens
  /\ \E filename \in LifeNames, fdopenOK \in BOOLEAN :
       LET r == openForWriting(FS, filename, fdopenOK)
           a == AfterOpen(r.res, r.fmode, resources, handles)
       IN  /\ resources' = a.resources /\ handles' = a.handles
           /\ root' = r.fs.root /\ cwd' = r.fs.cwd
  /\ LifeFrame

OpenAppend ==
  /\ Len(resources) < MaxOpens
  /\ \E filename \in LifeNames, fdopenOK \in BOOLEAN :
       LET r == openForAppend(FS, filename, fdopenOK)
           a == AfterOpen(r.res, r.fmode, resources, handles)
       IN  /\ resources' = a.resources /\ handles' = a.handles
           /\ root' = r.fs.root /\ cwd' = r.fs.cwd
  /\ LifeFrame

OpenReadWrite ==
  /\ Len(resources) < MaxOpens
  /\ \E filename \in LifeNames, fdopenOK \in BOOLEAN :
       LET r == openForReadWrite(FS, filename, fdopenOK)
           a == AfterOpen(r.res, r.fmode, resources, handles)
       IN  /\ resources' = a.resources /\ handles' = a.handles
           /\ root' = r.fs.root /\ cwd' = r.fs.cwd
  /\ LifeFrame

OpenInDataDir ==
  /\ Len(resources) < MaxOpens
  /\ \E filename \in LifeNames, fdopenOK \in BOOLEAN :
       LET r  == openForReadingInDataDir(FS, s_dataDir, filename, fdopenOK)
           id == Len(resources) + 1
       IN  /\ resources' = IF r.opened
                           THEN Append(resources,
                                       Resource("fd", r.path, ~r.closed, IF r.closed THEN 1 ELSE 0))
                           ELSE resources
           /\ handles' = IF r.stream
                         THEN handles \cup {Owner(id, "FILE", SGPFILE_REAL, GetFileOpenModes(FILE_ACCESS_READ))}
                         ELSE handles
  /\ UNCHANGED <<root, cwd>>
  /\ LifeFrame

\* FileClose on a handle a caller holds
Close ==
  /\ \E f \in {h \in handles : h.kind = "SGPFile"} :
       LET r == FileClose(f, resources, handles)
       IN  resources' = r.resources /\ handles' = r.handles
  /\ UNCHANGED <<root, cwd>>
  /\ LifeFrame

NextLife ==
  \/ OpenSmart
  \/ OpenWriting
  \/ OpenAppend
  \/ OpenReadWrite
  \/ OpenInDataDir
  \/ Close

SpecLife == InitLife /\ [][NextLife]_vars

---------------------------------------------------------------------------
(* FileExists on every layout of the three layers. *)

InitExists == InitOpen

FileExistsCall ==
  /\ ~lastExists.called
  /\ \E filename \in OpenNames :
       lastExists' = [filename |-> filename, called |-> TRUE,
                      exists   |-> FileExists(FS, s_dataDir, archive, filename)]
  /\ UNCHANGED <<root, cwd, archive, s_gameResRootPath, s_dataDir, s_tileDir, s_mapsDir,
                 lastFind, lastOpen>>
  /\ UNCHANGED <<joinVars, handleVars, eraseVars, lifeVars>>

NextExists == FileExistsCall

SpecExists == InitExists /\ [][NextExists]_vars

---------------------------------------------------------------------------
(* Claims about the layered open (SpecOpen). *)

\* the path names a regular file or a directory, verbatim
Present(path) == Lookup(FS, path) # NoNode /\ Lookup(FS, path).type \in {DT_REG, DT_DIR}

InDataDir(filename) == s_dataDir \o <<PATH_SEPARATOR>> \o filename

IsHandle(res, flags) == res.status = "handle" /\ res.flags = flags

\* every path below a directory, relative to it
RECURSIVE PathsBelow(_)
PathsBelow(listing) ==
  UNION {{listing[i].name}
           \cup {listing[i].name \o <<PATH_SEPARATOR>> \o p : p \in PathsBelow(listing[i].kids)}
         : i \in 1..Len(listing)}

\* the filename is in no layer: not in the current directory, under no casing
\* in the data directory, not in the library
AbsentEverywhere(filename) ==
  /\ Lookup(FS, filename) = NoNode
  /\ \A p \in PathsBelow(Lookup(FS, s_dataDir).kids) : ~strcasecmpEq(p, filename)
  /\ filename \notin archive

\* C1: with smart lookup (and fdopen succeeding), the handle is backed by the
\* first layer holding the file: a file in the current directory gives a
\* RealFile handle on it after the one direct open; a file not there but in the
\* data directory gives a RealFile handle on the data-directory file and the
\* library is not asked; an ArchiveEntry handle is given only for a file in
\* neither loose-file layer and in the library.
C1_FirstLayerWins ==
  (lastOpen.called /\ lastOpen.useSmartLookup /\ lastOpen.fdopenOK) =>
    LET f   == lastOpen.filename
        res == lastOpen.res
    IN  /\ Present(f) =>
             /\ IsHandle(res, SGPFILE_REAL) /\ res.path = f
             /\ lastOpen.calls = <<Call("open", f)>>
        /\ (~Present(f) /\ Present(InDataDir(f))) =>
             /\ IsHandle(res, SGPFILE_REAL) /\ res.path = InDataDir(f)
             /\ \A i \in 1..Len(lastOpen.calls) : lastOpen.calls[i].call # "OpenFileFromLibrary"
        /\ IsHandle(res, SGPFILE_NONE) =>
             /\ ~Present(f) /\ ~Present(InDataDir(f))
             /\ f \in archive /\ res.path = f
        /\ IsHandle(res, SGPFILE_REAL) => Present(res.path)

\* C1's case: a file in the library and in neither loose-file layer was opened
C1_Witness ==
  /\ lastOpen.called /\ lastOpen.useSmartLookup /\ lastOpen.fdopenOK
  /\ IsHandle(lastOpen.res, SGPFILE_NONE)
  /\ Lookup(FS, s_dataDir).kids # <<>>
  /\ cwd # <<>>

\* C2: a filename in no layer makes openForReadingSmart fail with the one
\* runtime_error and return no handle.
C2_AbsentEverywhereFails ==
  (lastOpen.called /\ AbsentEverywhere(lastOpen.filename)) =>
    /\ lastOpen.res.status = "runtime_error"
    /\ lastOpen.res.flags = SGPFILE_NONE
    /\ lastOpen.res.path = <<>>

\* C2's case: all three layers were asked for a filename none of them holds
C2_Witness ==
  /\ lastOpen.called /\ lastOpen.useSmartLookup
  /\ AbsentEverywhere(lastOpen.filename)
  /\ Lookup(FS, s_dataDir).kids # <<>>
  /\ lastOpen.res.status = "runtime_error"
  /\ \E i \in 1..Len(lastOpen.calls) : lastOpen.calls[i].call = "OpenFileFromLibrary"

\* C14: without smart lookup openForReadingSmart makes the one direct open
\* and nothing else: a filename not in the current directory fails with the
\* runtime_error whatever the data directory and the library hold, and a
\* handle returned is a RealFile handle on the path given.
C14_DirectOpenOnly ==
  (lastOpen.called /\ ~lastOpen.useSmartLookup) =>
    LET f   == lastOpen.filename
        res == lastOpen.res
    IN  /\ lastOpen.calls = <<Call("open", f)>>
        /\ ~Present(f) => (res.status = "runtime_error" /\ res.flags = SGPFILE_NONE)
        /\ res.status = "handle" =>
             (res.flags = SGPFILE_REAL /\ res.path = f /\ Present(f))

\* C14's case: a file in the data directory and in the library, not in the
\* current directory, was asked for without smart lookup and the open failed
C14_Witness ==
  /\ lastOpen.called /\ ~lastOpen.useSmartLookup
  /\ ~Present(lastOpen.filename)
  /\ Present(InDataDir(lastOpen.filename))
  /\ lastOpen.filename \in archive
  /\ lastOpen.res.status = "runtime_error"

---------------------------------------------------------------------------
(* Claims about the unified file handle (SpecHandle). *)

C6_WriteNeverSilentlySucceeds ==
  [][Write =>
       /\ outLib'.status = "Tried to write to library file"
       /\ hLib' = hLib /\ lib' = lib
       /\ hReal.fmode = "rb" =>
            (outReal'.status = "Writing to file failed" /\ disk' = disk)]_vars

\* C6's case: bytes were handed to FileWrite on an ArchiveEntry handle and on
\* a RealFile handle opened read-only, and both calls threw
C6_Witness ==
  /\ hReal.fmode = "rb" /\ disk # <<>>
  /\ outReal.op = "write" /\ outReal.arg > 0 /\ outReal.status = "Writing to file failed"
  /\ outLib.op = "write" /\ outLib.status = "Tried to write to library file"

\* the last call on a handle was a FileRead that kept the all-or-nothing rule
ReadAllOrNothing(out) ==
  out.op = "read" =>
    /\ out.status = "Reading from file failed" <=> out.leftBefore < out.arg
    /\ out.status = "ok" => Len(out.value) = out.arg

\* C7: FileRead fails exactly when fewer than the bytes asked for are left,
\* for every count from 0 on and for both kinds of handle.
C7_ReadAllOrNothing ==
  /\ hLib.open => ReadAllOrNothing(outLib)
  /\ (hReal.open /\ hReal.fmode \in {"rb", "r+b"}) => ReadAllOrNothing(outReal)

---------------------------------------------------------------------------
(* Claims about EraseDirectory (SpecErase). *)

\* the places in the glob order of the children unlink refuses though they
\* are no directories
Refused(before, order) ==
  {i \in 1..Len(order) :
     /\ ChildPath(order[i]) \in DOMAIN before
     /\ before[ChildPath(order[i])].kind = "file"
     /\ before[ChildPath(order[i])].locked}

MinOf(S) == CHOOSE x \in S : \A y \in S : x <= y

\* C8: EraseDirectory deletes the enumerated children that are files, leaves
\* every child directory with what it holds, and touches nothing else; when
\* a child that is no directory cannot be deleted it throws, the children
\* enumerated before it stay deleted and those after it are untouched.
C8_ShallowErase ==
  eraseResult.called =>
    LET before  == eraseResult.before
        after   == efs.nodes
        order   == efs.order
        refused == Refused(before, order)
        stop    == IF refused = {} THEN Len(order) + 1 ELSE MinOf(refused)
        isFile(i) == ChildPath(order[i]) \in DOMAIN before
                       /\ before[ChildPath(order[i])].kind = "file"
    IN  /\ eraseResult.status = (IF refused = {} THEN "ok" ELSE "Deleting file failed")
        /\ DOMAIN after \subseteq DOMAIN before
        /\ \A p \in DOMAIN after : after[p] = before[p]
        /\ \A i \in 1..Len(order) :
             (i < stop /\ isFile(i)) => ChildPath(order[i]) \notin DOMAIN after
        /\ \A p \in DOMAIN before :
             (\A i \in 1..Len(order) : (i < stop /\ isFile(i)) => p # ChildPath(order[i]))
               => p \in DOMAIN after

\* C8's case: a file was deleted, a directory holding a file was passed over,
\* and a later file that could not be deleted stopped the erase
C8_Witness ==
  /\ eraseResult.called
  /\ eraseResult.status = "Deleting file failed"
  /\ \E n \in ChildNames :
       ChildPath(n) \in DOMAIN eraseResult.before /\ ChildPath(n) \notin DOMAIN efs.nodes
  /\ \E n \in ChildNames : Inside(n) \in DOMAIN efs.nodes

---------------------------------------------------------------------------
(* Claims about joinPaths (SpecJoin). *)

DropTrailingSep(a) ==
  IF Len(a) > 0 /\ Last(a) = PATH_SEPARATOR THEN SubSeq(a, 1, Len(a) - 1) ELSE a

DropLeadingSep(b) ==
  IF Len(b) > 0 /\ b[1] = PATH_SEPARATOR THEN Tail(b) ELSE b

\* C4: every overload of joinPaths puts exactly one separator between first
\* and second, whether or not first ends in one and second begins with one.
C4_ExactlyOneSeparator ==
  jResult.fn # "none" =>
    jResult.out = DropTrailingSep(jFirst) \o <<PATH_SEPARATOR>> \o DropLeadingSep(jSecond)

---------------------------------------------------------------------------
(* Claims about the directory locator (SpecDirs). *)

\* path is join(dir, some casing of name)
IsSubdirNamed(path, dir, name) ==
  /\ Len(path) = Len(dir) + 1 + Len(name)
  /\ SubSeq(path, 1, Len(dir)) = dir
  /\ path[Len(dir) + 1] = PATH_SEPARATOR
  /\ strcasecmpEq(SubSeq(path, Len(dir) + 2, Len(path)), name)

\* C5: after findDataDirs, tilecacheDir and mapsDir are direct subdirectories
\* of the dataDir chosen.
C5_DirsUnderDataDir ==
  s_dataDir # <<>> =>
    /\ IsSubdirNamed(s_tileDir, s_dataDir, TILECACHEDIR)
    /\ IsSubdirNamed(s_mapsDir, s_dataDir, MAPSDIR)

---------------------------------------------------------------------------
(* Claims about the resolver (SpecResolve). *)

\* the entries of the directory, none when it cannot be opened
EntriesOf(directory) == IF opendirOK(FS, directory) THEN readdirAll(FS, directory) ELSE <<>>

\* the entry type is one the mask built from the flags lets through
PassesMask(type, files, dirs) ==
  \/ files /\ BitAnd(type, DT_REG) # 0
  \/ dirs /\ BitAnd(type, DT_DIR) # 0

\* the places of the entries of listing that match name and pass the mask
Matches(listing, name, files, dirs) ==
  {i \in 1..Len(listing) :
     strcasecmpEq(name, listing[i].name) /\ PassesMask(listing[i].type, files, dirs)}

MaxOf(S) == CHOOSE x \in S : \A y \in S : y <= x

HasDirPart(name) == strstrSep(name) > 1 /\ strstrSep(name) < Len(name)

\* C9: a name with a directory part is resolved head first, as a directory
\* only, then the remainder inside the directory found, with the caller's
\* flags; the answer is the two on-disk names joined by one separator, and
\* not-found as soon as a segment has no match.  A request in another casing
\* resolves as the request in the casing found does.
C9_HeadThenRemainder ==
  (lastFind.called /\ HasDirPart(lastFind.name)) =>
    LET dir    == lastFind.directory
        sp     == strstrSep(lastFind.name)
        head   == SubSeq(lastFind.name, 1, sp - 1)
        rest   == SubSeq(lastFind.name, sp + 1, Len(lastFind.name))
        heads  == Matches(EntriesOf(dir), head, FALSE, TRUE)
        hd     == EntriesOf(dir)[MaxOf(heads)]
        inHead == IF hd.type = DT_DIR THEN hd.kids ELSE <<>>
        tails  == Matches(inHead, rest, lastFind.files, lastFind.dirs)
        res    == lastFind.result
    IN  /\ res.found <=> (heads # {} /\ tails # {})
        /\ res.found =>
             /\ \E i \in tails : res.name = hd.name \o <<PATH_SEPARATOR>> \o inHead[i].name
             /\ strcasecmpEq(res.name, lastFind.name)
             /\ findObjectCaseInsensitive(FS, dir, res.name, lastFind.files, lastFind.dirs) = res
        /\ \A other \in FindNames :
             strcasecmpEq(other, lastFind.name) =>
               findObjectCaseInsensitive(FS, dir, other, lastFind.files, lastFind.dirs) = res

\* C9's case: a request in another casing than the one on disk was resolved
C9_Witness ==
  /\ lastFind.called /\ HasDirPart(lastFind.name)
  /\ lastFind.result.found
  /\ lastFind.result.name # lastFind.name

\* the type of the entry of the directory that has this name
TypeOfEntry(directory, name) ==
  LET l == EntriesOf(directory)
  IN  l[CHOOSE i \in 1..Len(l) : l[i].name = name].type

\* C10: the scan of one directory returns an entry only if it is a regular
\* file and lookForFiles is set, or a directory and lookForSubdirs is set.
C10_OnlySelectedTypes ==
  (lastFind.called /\ ~HasDirPart(lastFind.name) /\ lastFind.result.found) =>
    LET t == TypeOfEntry(lastFind.directory, lastFind.result.name)
    IN  \/ lastFind.files /\ t = DT_REG
        \/ lastFind.dirs /\ t = DT_DIR

\* C11: when several entries of the directory match the name under
\* strcasecmp and pass the type test, the scan returns the one readdir yields
\* last, whatever came before it; it finds none only when none matches.
C11_LastMatchWins ==
  (lastFind.called /\ ~HasDirPart(lastFind.name)) =>
    LET l    == EntriesOf(lastFind.directory)
        hits == Matches(l, lastFind.name, lastFind.files, lastFind.dirs)
    IN  /\ lastFind.result.found <=> hits # {}
        /\ hits # {} => lastFind.result.name = l[MaxOf(hits)].name

\* C11's case: two entries matched and the scan returned the later one, not
\* the first
C11_Witness ==
  /\ lastFind.called /\ ~HasDirPart(lastFind.name)
  /\ LET l    == EntriesOf(lastFind.directory)
         hits == Matches(l, lastFind.name, lastFind.files, lastFind.dirs)
     IN  /\ Cardinality(hits) >= 2
         /\ lastFind.result.name = l[MaxOf(hits)].name
         /\ lastFind.result.name # l[MinOf(hits)].name

---------------------------------------------------------------------------
(* Claims about descriptors and handles (SpecLife). *)

\* C12: after any opens and closes, every descriptor or library entry that
\* was acquired is either open and owned by exactly one live handle, or was
\* released exactly once and no handle owns it; so a failed open leaves no
\* descriptor open.
C12_OwnedOrReleased ==
  \A id \in 1..Len(resources) :
    LET owners == {h \in handles : h.id = id}
    IN  \/ resources[id].open /\ resources[id].releases = 0 /\ Cardinality(owners) = 1
        \/ ~resources[id].open /\ resources[id].releases = 1 /\ owners = {}

---------------------------------------------------------------------------
(* Claims about FileExists (SpecExists). *)

\* C13: FileExists(filename) is true exactly when openForReadingSmart of the
\* same filename with smart lookup, in the same state of the three layers,
\* returns a handle.
C13_ExistsIffOpens ==
  lastExists.called =>
    (lastExists.exists <=>
       openForReadingSmart(FS, s_dataDir, archive, lastExists.filename, TRUE, TRUE).res.status
         = "handle")

=============================================================================
